---- MODULE Spec2Model ----
(***************************************************************************)
(* Dumberg: the ticker registry (DumbergAPI.company_dict), the add_ticker  *)
(* handler of the dashboard, and the derived-metric computations of        *)
(* DumbergAPI (stock records, status table, market caps, cumulative        *)
(* returns, quarterly changes).                                            *)
(*                                                                         *)
(* Python strings are sequences of one-character strings, so that          *)
(* str.upper() is computed character by character.  A Python dict is a     *)
(* sequence of <<key, value>> pairs in insertion order.                    *)
(***************************************************************************)
EXTENDS Integers, Sequences, FiniteSets, TLC

VARIABLES company_dict, options, ticker_input, last

vars == <<company_dict, options, ticker_input, last>>

(***************************************************************************)
(* String literals of the source.                                          *)
(***************************************************************************)

\* 'Apple Inc.'
Apple_Inc == <<"A","p","p","l","e"," ","I","n","c",".">>

\* 'AAPL'
AAPL == <<"A","A","P","L">>

\* 'Microsoft Corp.'
Microsoft_Corp == <<"M","i","c","r","o","s","o","f","t"," ","C","o","r","p",".">>

\* 'MSFT'
MSFT == <<"M","S","F","T">>

\* 'Alphabet Inc. (Google)'
Alphabet_Inc_Google == <<"A","l","p","h","a","b","e","t"," ","I","n","c","."," ","(","G","o","o","g","l","e",")">>

\* 'GOOGL'
GOOGL == <<"G","O","O","G","L">>

\* 'Amazon.com Inc.'
Amazon_com_Inc == <<"A","m","a","z","o","n",".","c","o","m"," ","I","n","c",".">>

\* 'AMZN'
AMZN == <<"A","M","Z","N">>

\* 'NVIDIA Corporation'
NVIDIA_Corporation == <<"N","V","I","D","I","A"," ","C","o","r","p","o","r","a","t","i","o","n">>

\* 'NVDA'
NVDA == <<"N","V","D","A">>

\* 'Tesla Inc.'
Tesla_Inc == <<"T","e","s","l","a"," ","I","n","c",".">>

\* 'TSLA'
TSLA == <<"T","S","L","A">>

\* 'Berkshire Hathaway Inc.'
Berkshire_Hathaway_Inc == <<"B","e","r","k","s","h","i","r","e"," ","H","a","t","h","a","w","a","y"," ","I","n","c",".">>

\* 'BRK-B'
BRK_B == <<"B","R","K","-","B">>

\* 'Meta Platforms Inc. (Facebook)'
Meta_Platforms_Inc_Facebook == <<"M","e","t","a"," ","P","l","a","t","f","o","r","m","s"," ","I","n","c","."," ","(","F","a","c","e","b","o","o","k",")">>

\* 'META'
META == <<"M","E","T","A">>

\* 'Taiwan Semiconductor Manufacturing Company'
Taiwan_Semiconductor_Manufacturing_Company == <<"T","a","i","w","a","n"," ","S","e","m","i","c","o","n","d","u","c","t","o","r"," ","M","a","n","u","f","a","c","t","u","r","i","n","g"," ","C","o","m","p","a","n","y">>

\* 'TSM'
TSM == <<"T","S","M">>

\* 'Johnson & Johnson'
Johnson_and_Johnson == <<"J","o","h","n","s","o","n"," ","&"," ","J","o","h","n","s","o","n">>

\* 'JNJ'
JNJ == <<"J","N","J">>

\* '' (the cleared text input)
EmptyStr == <<>>

(***************************************************************************)
(* Inputs: what the user types and what the data source answers.           *)
(***************************************************************************)
\* 'aapl', 'Aapl': a built-in symbol typed in other letter cases
aapl == <<"a","a","p","l">>

Aapl == <<"A","a","p","l">>

\* 'brk-a': a second share class of a built-in company
brk_a == <<"b","r","k","-","a">>

BRK_A == <<"B","R","K","-","A">>

\* 'zzzz', 'ZZZZ', 'goog': symbols that are not built in
zzzz == <<"z","z","z","z">>

ZZZZ == <<"Z","Z","Z","Z">>

goog == <<"g","o","o","g">>

GOOG == <<"G","O","O","G">>

\* 'Zzzz Corp', 'Alphabet Inc.': long names that are not built in
Zzzz_Corp == <<"Z","z","z","z"," ","C","o","r","p">>

Alphabet_Inc == <<"A","l","p","h","a","b","e","t"," ","I","n","c",".">>

\* the values the user can give ticker_input
TickerInputs == {EmptyStr, aapl, Aapl, AAPL, brk_a, zzzz, ZZZZ, goog}

\* the long names stock.info can carry: a new name, the name of a built-in
\* entry, and a name that reads like a registered symbol
LongNames == {Zzzz_Corp, Alphabet_Inc, Berkshire_Hathaway_Inc, AAPL}

\* raw market capitalisations stock.info can carry
MarketCaps == {0, 1500000000}

\* stock.info: a dict that may lack 'longName' and may lack 'marketCap'
NoInfo == <<>>

Infos ==
    {NoInfo}
    \cup {[marketCap |-> c] : c \in MarketCaps}
    \cup {[longName |-> n] : n \in LongNames}

(***************************************************************************)
(* str.upper()                                                             *)
(***************************************************************************)
LowerCase == <<"a","b","c","d","e","f","g","h","i","j","k","l","m","n","o","p","q","r","s","t","u","v","w","x","y","z">>

UpperCase == <<"A","B","C","D","E","F","G","H","I","J","K","L","M","N","O","P","Q","R","S","T","U","V","W","X","Y","Z">>

upper_char(c) ==
    IF \E i \in 1..Len(LowerCase) : LowerCase[i] = c
    THEN UpperCase[CHOOSE i \in 1..Len(LowerCase) : LowerCase[i] = c]
    ELSE c

\* the text as typed, not upper-cased
upper_omitted(s) == s

upper(s) == [i \in 1..Len(s) |-> upper_char(s[i])]

(***************************************************************************)
(* dict: keys(), values(), in, get, d[k], d[k] = v                         *)
(***************************************************************************)
dict_keys(d) == [i \in 1..Len(d) |-> d[i][1]]

dict_values(d) == [i \in 1..Len(d) |-> d[i][2]]

dict_has(d, k) == \E i \in 1..Len(d) : d[i][1] = k

dict_item(d, k) == d[CHOOSE i \in 1..Len(d) : d[i][1] = k][2]

dict_get(d, k, default) == IF dict_has(d, k) THEN dict_item(d, k) ELSE default

\* d[k] = v: an existing key keeps its position and takes the new value,
\* a new key is appended
dict_set(d, k, v) ==
    IF dict_has(d, k)
    THEN [i \in 1..Len(d) |-> IF d[i][1] = k THEN <<k, v>> ELSE d[i]]
    ELSE Append(d, <<k, v>>)

in_seq(x, s) == \E i \in 1..Len(s) : s[i] = x

(***************************************************************************)
(* DumbergAPI.__init__                                                     *)
(***************************************************************************)
InitialCompanyDict ==
    << <<Apple_Inc, AAPL>>,
       <<Microsoft_Corp, MSFT>>,
       <<Alphabet_Inc_Google, GOOGL>>,
       <<Amazon_com_Inc, AMZN>>,
       <<NVIDIA_Corporation, NVDA>>,
       <<Tesla_Inc, TSLA>>,
       <<Berkshire_Hathaway_Inc, BRK_B>>,
       <<Meta_Platforms_Inc_Facebook, META>>,
       <<Taiwan_Semiconductor_Manufacturing_Company, TSM>>,
       <<Johnson_and_Johnson, JNJ>> >>

\* no handler has run yet
NoCall == [op |-> "none", args |-> <<>>, out |-> <<>>]

Init ==
    /\ company_dict = InitialCompanyDict
    /\ options = dict_keys(InitialCompanyDict)
    /\ ticker_input = EmptyStr
    /\ last = NoCall

(***************************************************************************)
(* add_ticker (dumberg.py)                                                 *)
(***************************************************************************)
\* the guard without the test for a symbol already registered
is_nonempty_ticker(new_ticker, d) == new_ticker # EmptyStr

\* line 40: the guard of the lookup
is_new_ticker(new_ticker, d) ==
    /\ new_ticker # EmptyStr
    /\ ~ in_seq(new_ticker, dict_values(d))

\* line 43
has_long_name(info) == "longName" \in DOMAIN info

\* a symbol without long name registered under the symbol itself
register_or_symbol(d, new_ticker, info) ==
    IF "longName" \in DOMAIN info
    THEN dict_set(d, info["longName"], new_ticker)
    ELSE dict_set(d, new_ticker, new_ticker)

\* lines 43-46 and 51-52: the registry after the data source answered
register(d, new_ticker, info) ==
    IF has_long_name(info)
    THEN dict_set(d, info["longName"], new_ticker)
    ELSE d

\* The watcher of ticker_input.value runs add_ticker when the value changes.
\* On success the handler clears the input, which runs the handler once more
\* on '', where it does nothing.
add_ticker(value, info) ==
    /\ value # ticker_input
    /\ LET new_ticker == upper(value) IN
       IF is_new_ticker(new_ticker, company_dict)
       THEN /\ company_dict' = register(company_dict, new_ticker, info)
            /\ options' = IF has_long_name(info) THEN dict_keys(company_dict') ELSE options
            /\ ticker_input' = IF has_long_name(info) THEN EmptyStr ELSE value
            /\ last' = [op |-> "add_ticker", args |-> <<value>>,
                        out |-> [queried |-> TRUE, info |-> info,
                                 notified |-> ~ has_long_name(info)]]
       ELSE /\ ticker_input' = value
            /\ last' = [op |-> "add_ticker", args |-> <<value>>,
                        out |-> [queried |-> FALSE, info |-> NoInfo, notified |-> FALSE]]
            /\ UNCHANGED <<company_dict, options>>

AddTicker == \E value \in TickerInputs, info \in Infos : add_ticker(value, info)


(***************************************************************************)
(* The data source as the stock table sees it: stock.history(period='1d')  *)
(* per ticker, a sequence of sessions that may be empty.                   *)
(***************************************************************************)
\* prices, in cents
Prices == {9950, 10025}

Sessions == [Open : Prices, Close : Prices]

Histories1d == {<<>>} \cup {<<s>> : s \in Sessions}

\* every symbol a ticker can be in this model
Tickers == {AAPL, MSFT, GOOGL, AMZN, NVDA, TSLA, BRK_B, META, TSM, JNJ, BRK_A, ZZZZ, GOOG}

\* a data source: AAPL, ZZZZ and all other symbols answer independently;
\* a string that is no symbol (a display name passed through) has no data
Market(hA, hZ, hOther) ==
    [t \in Tickers \cup LongNames |->
        IF t = AAPL THEN hA
        ELSE IF t = ZZZZ THEN hZ
        ELSE IF t \in Tickers THEN hOther
        ELSE <<>>]

\* Python's None and a present value
None == <<>>

Some(x) == <<x>>

(***************************************************************************)
(* DumbergAPI.fetch_stock_data                                             *)
(***************************************************************************)
fetch_stock_data(market, ticker) ==
    LET data == market[ticker] IN
    IF data # <<>>
    THEN <<Some(data[1].Close), Some(data[1].Open)>>
    ELSE <<None, None>>

(***************************************************************************)
(* DumbergAPI.create_stock_dataframe                                       *)
(***************************************************************************)
\* line 50: a known display name gives its symbol, anything else is taken
\* to be a symbol already
resolve(d, company) == dict_get(d, company, company)

\* lines 51-60: the rows one company contributes (none or one)
stock_rows(d, market, company) ==
    LET ticker == resolve(d, company)
        fetched == fetch_stock_data(market, ticker)
        current_price == fetched[1]
        opening_price == fetched[2]
    IN  IF current_price # None /\ opening_price # None
        THEN << [Company |-> company,
                 Ticker |-> ticker,
                 Current_Price |-> current_price[1],
                 Opening_Price |-> opening_price[1],
                 Price_Change |-> current_price[1] - opening_price[1]] >>
        ELSE <<>>

RECURSIVE collect_rows(_, _, _)
collect_rows(d, market, tickers) ==
    IF tickers = <<>> THEN <<>>
    ELSE stock_rows(d, market, Head(tickers)) \o collect_rows(d, market, Tail(tickers))

\* the tickers as given, an empty selection kept empty
given_tickers(d, tickers) == tickers

\* lines 46-47
default_tickers(d, tickers) == IF tickers = <<>> THEN dict_keys(d) ELSE tickers

create_stock_dataframe(d, market, tickers) ==
    collect_rows(d, market, default_tickers(d, tickers))

(***************************************************************************)
(* DumbergAPI.create_stock_table                                           *)
(***************************************************************************)
\* "Up" also for equal prices
status_not_below(row) == IF row.Current_Price >= row.Opening_Price THEN "Up" ELSE "Down"

\* line 76
status_of(row) == IF row.Current_Price > row.Opening_Price THEN "Up" ELSE "Down"

\* line 77
color_of(status) == IF status = "Up" THEN "#4af6c3" ELSE "#ff433d"

\* line 79: f"${price:.2f}" of a price in cents
format_price(p) == <<"$", p \div 100, ".", (p % 100) \div 10, p % 10>>

create_stock_table(stock_df) ==
    [rows |-> [i \in 1..Len(stock_df) |->
                  [Ticker |-> stock_df[i].Ticker,
                   Price |-> format_price(stock_df[i].Current_Price),
                   Status |-> status_of(stock_df[i])]],
     colors |-> [i \in 1..Len(stock_df) |-> color_of(status_of(stock_df[i]))]]

(***************************************************************************)
(* Calls of the stock table.                                               *)
(***************************************************************************)
\* the longest selection
MaxSelected == 2

RECURSIVE SeqsUpTo(_, _)
SeqsUpTo(S, n) ==
    IF n = 0 THEN {<<>>}
    ELSE LET shorter == SeqsUpTo(S, n - 1)
         IN  shorter \cup {Append(s, x) : s \in {t \in shorter : Len(t) = n - 1}, x \in S}

\* what a caller of the API can pass: display names and raw symbols
Identifiers == {Apple_Inc, Zzzz_Corp, ZZZZ}

\* what the check-box group can offer
SelectableNames == {Apple_Inc, Zzzz_Corp, Berkshire_Hathaway_Inc}

\* A call is made when the previous call's result has been handed over.
Idle == last.op \in {"none", "add_ticker"}

\* the caller takes the result of the call
Return ==
    /\ ~ Idle
    /\ last' = NoCall
    /\ UNCHANGED <<company_dict, options, ticker_input>>

\* api.create_stock_dataframe(*tickers), with any tickers, none included
CreateStockDataframe ==
    /\ Idle
    /\ \E tickers \in SeqsUpTo(Identifiers, MaxSelected),
          hA \in Histories1d, hZ \in Histories1d, hOther \in Histories1d :
        /\ last' = [op |-> "create_stock_dataframe", args |-> <<tickers, hA, hZ, hOther>>,
                    out |-> create_stock_dataframe(company_dict, Market(hA, hZ, hOther), tickers)]
        /\ UNCHANGED <<company_dict, options, ticker_input>>

\* update_stock_table (dumberg.py): the selection is a list of options
UpdateStockTable ==
    /\ Idle
    /\ \E selected \in SeqsUpTo({n \in SelectableNames : in_seq(n, options)}, MaxSelected),
          hA \in Histories1d, hZ \in Histories1d, hOther \in Histories1d :
        /\ last' = [op |-> "update_stock_table", args |-> <<selected, hA, hZ, hOther>>,
                    out |-> IF selected # <<>>
                            THEN LET stock_df == create_stock_dataframe(company_dict, Market(hA, hZ, hOther), selected)
                                 IN  [stock_df |-> stock_df, table |-> create_stock_table(stock_df)]
                            ELSE [markdown |-> "### Please select at least one company."]]
        /\ UNCHANGED <<company_dict, options, ticker_input>>

\* add_ticker on the one new symbol the calls below look at
AddTickerZzzz ==
    /\ Idle
    /\ \E value \in {EmptyStr, zzzz}, info \in {NoInfo} \cup {[longName |-> n] : n \in LongNames} :
          add_ticker(value, info)

(***************************************************************************)
(* Floating-point values, as exact fractions in lowest terms, and NaN.     *)
(***************************************************************************)
RECURSIVE gcd(_, _)
gcd(a, b) == IF b = 0 THEN a ELSE gcd(b, a % b)

abs(a) == IF a < 0 THEN -a ELSE a

NaN == [nan |-> TRUE, num |-> 0, den |-> 1]

\* n / d with d > 0, in lowest terms
Frac(n, d) ==
    LET g == gcd(abs(n), d)
    IN  [nan |-> FALSE, num |-> n \div g, den |-> d \div g]

Float(n) == Frac(n, 1)

isna(a) == a.nan

add(a, b) == IF a.nan \/ b.nan THEN NaN ELSE Frac(a.num * b.den + b.num * a.den, a.den * b.den)

sub(a, b) == IF a.nan \/ b.nan THEN NaN ELSE Frac(a.num * b.den - b.num * a.den, a.den * b.den)

mul(a, b) == IF a.nan \/ b.nan THEN NaN ELSE Frac(a.num * b.num, a.den * b.den)

\* a / b for b > 0
div(a, b) == IF a.nan \/ b.nan THEN NaN ELSE Frac(a.num * b.den, a.den * b.num)

(***************************************************************************)
(* DumbergAPI.plot_donut_chart                                             *)
(***************************************************************************)
\* stock.info of each symbol: AAPL, ZZZZ and all other symbols answer
\* independently
InfoSource(iA, iZ, iOther) ==
    [t \in Tickers |-> IF t = AAPL THEN iA ELSE IF t = ZZZZ THEN iZ ELSE iOther]

\* the profiles the donut chart can meet
CapInfos ==
    {NoInfo, [longName |-> Zzzz_Corp]}
    \cup {[marketCap |-> c] : c \in MarketCaps}

\* line 105: the 1e9 of the conversion to billions
Billion == 1000000000

\* stock.info.get('marketCap') without the default 0
market_cap_or_nan(info) ==
    IF "marketCap" \in DOMAIN info THEN div(Float(info["marketCap"]), Float(Billion)) ELSE NaN

\* line 105: stock.info.get('marketCap', 0) / 1e9
market_cap_of(info) ==
    div(Float(IF "marketCap" \in DOMAIN info THEN info["marketCap"] ELSE 0), Float(Billion))

\* line 101: self.company_dict[company] raises KeyError on an unknown company
missing_companies(d, selected_companies) ==
    {i \in 1..Len(selected_companies) : ~ dict_has(d, selected_companies[i])}

plot_donut_chart(d, source, selected_companies) ==
    IF missing_companies(d, selected_companies) # {}
    THEN [raised |-> "KeyError"]
    ELSE LET tickers == [i \in 1..Len(selected_companies) |-> dict_item(d, selected_companies[i])]
         IN  [labels |-> tickers,
              values |-> [i \in 1..Len(tickers) |-> market_cap_of(source[tickers[i]])]]

PlotDonutChart ==
    /\ Idle
    /\ \E selected_companies \in SeqsUpTo(Identifiers, MaxSelected),
          iA \in CapInfos, iZ \in CapInfos, iOther \in CapInfos :
        /\ last' = [op |-> "plot_donut_chart", args |-> <<selected_companies, iA, iZ, iOther>>,
                    out |-> plot_donut_chart(company_dict, InfoSource(iA, iZ, iOther), selected_companies)]
        /\ UNCHANGED <<company_dict, options, ticker_input>>

(***************************************************************************)
(* One year of daily sessions: stock.history(period='1y').                 *)
(* A session's date is <<quarter, position>>, the quarter counted from     *)
(* year 0 (year * 4 + quarter - 1).  Consecutive sessions lie in the same  *)
(* quarter or in consecutive quarters.                                     *)
(***************************************************************************)
\* the longest history
MaxHistory == 3

\* closing prices
Closes == {100, 110, 121}

\* the quarter of the first session: 2023-Q4
StartQuarters == {2023 * 4 + 3}

RECURSIVE HistoriesOfLen(_)
HistoriesOfLen(n) ==
    IF n = 0 THEN {<<>>}
    ELSE IF n = 1 THEN {<<[Date |-> <<q, 1>>, Close |-> c]>> : q \in StartQuarters, c \in Closes}
    ELSE {Append(h, [Date |-> <<h[n - 1].Date[1] + step, n>>, Close |-> c]) :
            h \in HistoriesOfLen(n - 1), step \in {0, 1}, c \in Closes}

Histories1y == UNION {HistoriesOfLen(n) : n \in 0..MaxHistory}

\* data['Close']
close_column(data) == [i \in 1..Len(data) |-> [index |-> data[i].Date, value |-> Float(data[i].Close)]]

\* Series.pct_change(): value / previous value - 1, the first undefined
pct_change(s) ==
    [i \in 1..Len(s) |->
        [index |-> s[i].index,
         value |-> IF i = 1 THEN NaN ELSE sub(div(s[i].value, s[i - 1].value), Float(1))]]

\* Series.cumsum(): the running sum, NaN entries skipped and left NaN
RECURSIVE running_sum(_, _)
running_sum(s, i) ==
    IF i = 0 THEN Float(0)
    ELSE add(running_sum(s, i - 1), IF isna(s[i].value) THEN Float(0) ELSE s[i].value)

\* a running sum that does not skip NaN
cumsum_no_skip(s) ==
    LET RECURSIVE total(_)
        total(i) == IF i = 0 THEN Float(0) ELSE add(total(i - 1), s[i].value)
    IN  [i \in 1..Len(s) |-> [index |-> s[i].index, value |-> total(i)]]

cumsum(s) ==
    [i \in 1..Len(s) |->
        [index |-> s[i].index,
         value |-> IF isna(s[i].value) THEN NaN ELSE running_sum(s, i)]]

\* Series * k
times(s, k) == [i \in 1..Len(s) |-> [index |-> s[i].index, value |-> mul(s[i].value, Float(k))]]

\* Series.dropna()
dropna(s) == SelectSeq(s, LAMBDA e : ~ isna(e.value))

(***************************************************************************)
(* DumbergAPI.plot_performance_chart                                       *)
(***************************************************************************)
\* line 129
returns_column(data) == times(cumsum(pct_change(close_column(data))), 100)

plot_performance_chart(data) ==
    IF data # <<>>
    THEN LET Returns == returns_column(data)
         IN  [x |-> [i \in 1..Len(data) |-> data[i].Date],
              y |-> [i \in 1..Len(Returns) |-> Returns[i].value]]
    ELSE [x |-> <<>>, y |-> <<>>]

(***************************************************************************)
(* DumbergAPI.plot_waterfall_chart                                         *)
(***************************************************************************)
\* Series.resample('Q').last(): one bin per quarter from the first session's
\* to the last session's, holding the last close of the quarter
resample_last(s) ==
    LET first == s[1].index[1]
        final == s[Len(s)].index[1]
        in_bin(q) == {i \in 1..Len(s) : s[i].index[1] = q}
    IN  [k \in 1..(final - first + 1) |->
            LET q == first + k - 1 IN
            [index |-> q,
             value |-> IF in_bin(q) = {} THEN NaN
                       ELSE s[CHOOSE i \in in_bin(q) : \A j \in in_bin(q) : j <= i].value]]

\* What the platform's strftime makes of %q, a directive it does not know:
\* it is copied as it stands (glibc), its letter is copied (BSD), or the
\* format is refused with ValueError (the Windows C runtime).
PercentQ == {"%q", "q", "ValueError"}

\* index.strftime('%Y-Q%q') of a quarter
strftime(q, pq) == <<q \div 4, "-Q", pq>>

plot_waterfall_chart(data, pq) ==
    IF data # <<>>
    THEN LET quarterly_data == resample_last(close_column(data))
             quarterly_changes == times(pct_change(quarterly_data), 100)
         IN  IF pq = "ValueError"
             THEN [raised |-> "ValueError"]
             ELSE [x |-> [i \in 1..Len(quarterly_changes) |-> strftime(quarterly_changes[i].index, pq)],
                   y |-> dropna(quarterly_changes)]
    ELSE [x |-> <<>>, y |-> <<>>]

\* the symbols whose charts are drawn
ChartTickers == {AAPL, ZZZZ}

PlotPerformanceChart ==
    /\ Idle
    /\ \E ticker \in ChartTickers, data \in Histories1y :
        /\ last' = [op |-> "plot_performance_chart", args |-> <<ticker, data>>,
                    out |-> plot_performance_chart(data)]
        /\ UNCHANGED <<company_dict, options, ticker_input>>

PlotWaterfallChart ==
    /\ Idle
    /\ \E ticker \in ChartTickers, data \in Histories1y, pq \in PercentQ :
        /\ last' = [op |-> "plot_waterfall_chart", args |-> <<ticker, data, pq>>,
                    out |-> plot_waterfall_chart(data, pq)]
        /\ UNCHANGED <<company_dict, options, ticker_input>>

NextAPI ==
    \/ AddTickerZzzz
    \/ CreateStockDataframe
    \/ UpdateStockTable
    \/ PlotDonutChart
    \/ PlotPerformanceChart
    \/ PlotWaterfallChart
    \/ Return

SpecAPI == Init /\ [][NextAPI]_vars

(***************************************************************************)
(* Properties of the registry (specification Spec).                        *)
(***************************************************************************)
\* the upper-cased spelling of each text the user can type, written out
Spelled(value) ==
    CASE value = aapl -> AAPL
      [] value = Aapl -> AAPL
      [] value = brk_a -> BRK_A
      [] value = zzzz -> ZZZZ
      [] value = goog -> GOOG
      [] OTHER -> value

\* the symbols of a registry
Symbols(d) == {d[i][2] : i \in 1..Len(d)}

\* the step is a call of add_ticker on value
AddTickerStep(value) == last'.op = "add_ticker" /\ last'.args = <<value>>

\* C1: a call of add_ticker on a symbol whose profile has no long name is
\* rejected with the "Invalid Ticker" notification and leaves the registry
\* (its entries, and so its cardinality) and the offered options as they were.
C1_InvalidTickerLeavesRegistry ==
    [][(/\ last'.op = "add_ticker"
        /\ last'.out.queried
        /\ "longName" \notin DOMAIN last'.out.info)
       => (/\ last'.out.notified
           /\ company_dict' = company_dict
           /\ Len(company_dict') = Len(company_dict)
           /\ options' = options)]_vars

\* C1 witness: a registry that has grown rejects a symbol without long name
C1_Witness ==
    /\ last.op = "add_ticker"
    /\ last.out.queried
    /\ "longName" \notin DOMAIN last.out.info
    /\ last.out.notified
    /\ Len(company_dict) > Len(InitialCompanyDict)

\* C2: a call of add_ticker on a text whose upper-cased form is already a
\* symbol of the registry, in any letter case, asks the data source nothing
\* and leaves the registry as it was.
C2_DuplicateIsNoOp ==
    [][\A value \in TickerInputs :
          (AddTickerStep(value) /\ Spelled(value) \in Symbols(company_dict))
          => (/\ ~ last'.out.queried
              /\ ~ last'.out.notified
              /\ company_dict' = company_dict
              /\ options' = options)]_vars

\* C2 witness: a lower-case spelling of a symbol registered earlier is typed
C2_Witness ==
    /\ last.op = "add_ticker"
    /\ last.args = <<zzzz>>
    /\ ZZZZ \in Symbols(company_dict)
    /\ ~ last.out.queried

\* C3 as claimed: every entry of the registry is still there after any step,
\* with the same symbol, and the registry does not shrink.
C3_EntriesKept ==
    [][/\ Len(company_dict') >= Len(company_dict)
       /\ \A i \in 1..Len(company_dict) :
            \E j \in 1..Len(company_dict') : company_dict'[j] = company_dict[i]]_vars

\* the texts resolve is applied to: every name and symbol of the registry
\* and every text the user can type
ResolveInputs(d) == {d[i][1] : i \in 1..Len(d)} \cup Symbols(d) \cup TickerInputs

\* C6 as claimed: resolve is idempotent in every reachable registry.
C6_ResolveIdempotent ==
    \A x \in ResolveInputs(company_dict) :
        resolve(company_dict, resolve(company_dict, x)) = resolve(company_dict, x)

\* C10: no two distinct display names of the registry have the same symbol.
C10_RegistryInjective ==
    \A i, j \in 1..Len(company_dict) :
        company_dict[i][2] = company_dict[j][2] => company_dict[i][1] = company_dict[j][1]

\* C10 witness: three symbols were added to the ten built in
C10_Witness ==
    /\ Len(company_dict) = Len(InitialCompanyDict) + 3
    /\ {BRK_A, ZZZZ, GOOG} \subseteq Symbols(company_dict)

(***************************************************************************)
(* Properties of the calls (specification SpecAPI).                        *)
(***************************************************************************)
\* the data source of a stock-table call
CallMarket == Market(last.args[2], last.args[3], last.args[4])

\* the registry entries whose symbol has a session, in registry order
EntriesWithData(d, market) == SelectSeq(d, LAMBDA e : market[e[2]] # <<>>)

AllCompaniesCall == last.op = "create_stock_dataframe" /\ last.args[1] = <<>>

\* C4 as claimed: with an empty selection there are as many records as
\* registry entries, whatever the data source answers.
C4_OneRecordPerEntry ==
    AllCompaniesCall => Len(last.out) = Len(company_dict)

\* C4 as amended: with an empty selection there is one record per registry
\* entry whose symbol has a session, in registry order; entries without data
\* are left out, so all entries have records exactly when all have data.
C4_OneRecordPerEntryWithData ==
    AllCompaniesCall =>
        LET present == EntriesWithData(company_dict, CallMarket) IN
        /\ Len(last.out) = Len(present)
        /\ \A i \in 1..Len(present) :
            /\ last.out[i].Company = present[i][1]
            /\ last.out[i].Ticker = present[i][2]
        /\ (Len(last.out) = Len(company_dict)
            <=> \A i \in 1..Len(company_dict) : CallMarket[company_dict[i][2]] # <<>>)

\* C4 witness: an empty selection on a grown registry, some symbols without data
C4_Witness ==
    /\ AllCompaniesCall
    /\ Len(company_dict) > Len(InitialCompanyDict)
    /\ Len(last.out) > 0
    /\ Len(last.out) < Len(company_dict)

\* the rows of the last stock-table call
CallRows ==
    IF last.op = "create_stock_dataframe" THEN last.out
    ELSE IF last.op = "update_stock_table" /\ last.args[1] # <<>> THEN last.out.stock_df
    ELSE <<>>

\* C8: every record has delta = current - opening, the prices being the
\* close and the open of the symbol's session, and its row of the table is
\* "Up" exactly when delta > 0 and "Down" otherwise, equal prices included.
C8_DeltaAndStatus ==
    /\ \A i \in 1..Len(CallRows) :
        LET row == CallRows[i] IN
        /\ row.Current_Price = CallMarket[row.Ticker][1].Close
        /\ row.Opening_Price = CallMarket[row.Ticker][1].Open
        /\ row.Price_Change = row.Current_Price - row.Opening_Price
    /\ (last.op = "update_stock_table" /\ last.args[1] # <<>>) =>
        /\ Len(last.out.table.rows) = Len(last.out.stock_df)
        /\ \A i \in 1..Len(last.out.stock_df) :
            LET status == last.out.table.rows[i].Status
                delta == last.out.stock_df[i].Price_Change
            IN  /\ status \in {"Up", "Down"}
                /\ status = "Up" <=> delta > 0
                /\ last.out.table.rows[i].Ticker = last.out.stock_df[i].Ticker

\* C8 witness: a table with a row whose prices are equal, and so "Down",
\* and a row that is "Up"
C8_Witness ==
    /\ last.op = "update_stock_table"
    /\ last.args[1] # <<>>
    /\ \E i, j \in 1..Len(last.out.stock_df) :
        /\ last.out.stock_df[i].Price_Change = 0
        /\ last.out.table.rows[i].Status = "Down"
        /\ last.out.table.rows[j].Status = "Up"

DonutCall == last.op = "plot_donut_chart"

\* the profile the data source of a donut call gives a symbol
CallInfo(ticker) == InfoSource(last.args[2], last.args[3], last.args[4])[ticker]

ClosesOf(data) == [i \in 1..Len(data) |-> data[i].Close]

\* 100 * ((c2/c1 - 1) + ... + (cn/c(n-1) - 1)), term by term
RECURSIVE SumOfReturns(_, _)
SumOfReturns(c, n) ==
    IF n <= 1 THEN Float(0)
    ELSE add(SumOfReturns(c, n - 1), Frac(100 * (c[n] - c[n - 1]), c[n - 1]))

PerformanceCall == last.op = "plot_performance_chart" /\ Len(last.args[2]) >= 2

\* the chart has a point per session, the first undefined, and its last
\* point is 100 times the sum of the session-over-session changes
ReturnsAreSummedChanges ==
    PerformanceCall =>
        LET c == ClosesOf(last.args[2])
            n == Len(c)
        IN  /\ Len(last.out.y) = n
            /\ last.out.y[1] = NaN
            /\ last.out.y[n] = SumOfReturns(c, n)

\* C9 as claimed: the last cumulative return is 100 times the sum of the
\* changes, and for closes 100, 110, 121 it is 21.
C9_CumulativeReturn21 ==
    /\ ReturnsAreSummedChanges
    /\ (PerformanceCall /\ ClosesOf(last.args[2]) = <<100, 110, 121>>) => last.out.y[3] = Float(21)

\* C9 as amended: the last cumulative return is 100 times the sum of the
\* changes, and for closes 100, 110, 121 it is 20 (10 + 10; 21 is the
\* compounded return 121/100 - 1).
C9_CumulativeReturn20 ==
    /\ ReturnsAreSummedChanges
    /\ (PerformanceCall /\ ClosesOf(last.args[2]) = <<100, 110, 121>>) => last.out.y[3] = Float(20)

\* C9 witness: the chart of closes 100, 110, 121
C9_Witness ==
    /\ PerformanceCall
    /\ ClosesOf(last.args[2]) = <<100, 110, 121>>
    /\ last.out.y = <<NaN, Float(10), Float(20)>>

\* the quarters a history covers
QuartersOf(data) == {data[i].Date[1] : i \in 1..Len(data)}

\* C7 as claimed: for a history covering k quarters the chart, when it is
\* drawn, has k - 1 labels and k - 1 values, and the i-th label is the
\* quarter of the i-th value, so that the first quarter has no label.
C7_FirstQuarterDropped ==
    (/\ last.op = "plot_waterfall_chart"
     /\ last.args[2] # <<>>
     /\ "raised" \notin DOMAIN last.out) =>
        LET k == Cardinality(QuartersOf(last.args[2])) IN
        /\ Len(last.out.y) = k - 1
        /\ Len(last.out.x) = k - 1
        /\ \A i \in 1..Len(last.out.y) : last.out.x[i][1] = last.out.y[i].index \div 4

(***************************************************************************)
(* Specifications.                                                         *)
(***************************************************************************)
Next == AddTicker

Spec == Init /\ [][Next]_vars

====
